---- MODULE Spec2Model ----
(***************************************************************************)
(* moxui: GPU resource layer (instance buffers, viewport uniform, shape,   *)
(* texture-atlas and blur renderers).                                      *)
(*                                                                         *)
(* The device, queue and command encoder are modelled by `cmds`, the list  *)
(* of device/queue/encoder commands issued by the most recent call, and    *)
(* `call`, which names that call and the length of the list it was given.  *)
(* Integer widths: every byte size here stays far below 2^32, so the       *)
(* `as u32` casts of the source are the identity within the bounds.        *)
(***************************************************************************)
EXTENDS Integers, Sequences, FiniteSets, TLC

\* ---------------------------------------------------------------- bounds
\* longest instance list handed to ShapeRenderer::prepare
MaxInstances == 90
\* longest mixed area list handed to TextureRenderer::prepare
MaxAreas == 2
\* largest blur radius of an area
MaxBlur == 1
\* largest width / height of a resolution or surface
MaxDim == 2
\* number of TextureRenderer::resize calls followed
MaxResizes == 1
\* largest radius / sigma given to gaussian_kernel_1d called on its own
MaxRadius == 6
MaxSigma == 8
\* longest slice given to a buffer of crate::buffers used on its own
MaxElements == 3
\* largest TextureArea.scale and Buffer.scale tried
MaxScale == 2
\* largest layer count given to with_layers
MaxLayers == 2
\* longest side of the images and targets given to Image::pad
MaxSide == 2

\* ------------------------------------------------------ program constants
\* size_of::<ShapeInstance>(): 22 f32 fields, repr(C)
ShapeInstanceSize == 88
\* size_of::<TextureInstance>(): 29 f32 fields, repr(C)
TextureInstanceSize == 116
\* size_of::<BlurInstance>(): u32 + 2 * [f32; 4], repr(C)
BlurInstanceSize == 36
\* ShapeRenderer index list [0, 1, 3, 1, 2, 3]
ShapeIndexCount == 6
\* TextureRenderer index list [0, 1, 2, 3]
TextureIndexCount == 4
\* wgpu COPY_BYTES_PER_ROW_ALIGNMENT as used by prepare
RowAlignment == 256
\* max_icon_size passed to TextureRenderer::new
MaxTextureWidth == 64
MaxTextureHeight == 64
\* size_of::<u16>(), the element of IndexBuffer
IndexSize == 2
\* size_of::<Vertex>(): position [f32; 2]
VertexSize == 8
\* size_of::<f32>(), the element of the weights and offsets StorageBuffer
StorageElementSize == 4
\* size_of::<Params>(): resolution [u32; 2] + _pad [u32; 2]
ParamsSize == 16
\* identity of the caller's texture view handed to render
TargetView == 0
\* the two textures BlurRenderer::new creates are 1 and 2
FirstFreeTexture == 3

VARIABLES
    call,                  \* most recent call: [obj, op, n]
    cmds,                  \* commands issued by the most recent call
    shape_instance_buffer, \* ShapeRenderer.instance_buffer
    vp_resolution,         \* Viewport.params.resolution
    vp_history,            \* the last two Viewport::update calls
    prepared_instances,    \* TextureRenderer.prepared_instances
    tex_instance_buffer,   \* TextureRenderer.instance_buffer
    tex_height,            \* TextureRenderer.height
    blur_instance_buffer,  \* BlurRenderer.instance_buffer
    blur_views,            \* BlurRenderer.intermediate_view / output_view
    bind_groups,           \* BlurRenderer.bind_groups
    storage_buffers,       \* BlurRenderer.storage_buffers
    next_texture,          \* identity of the next texture the device creates
    blur_instances,        \* BlurRenderer.instance_buffer.instances
    tex_instances,         \* the TextureInstance records prepare last wrote
    max_textures,          \* layer count of the atlas texture
    last_n,                \* per renderer, the list length given to its
                           \* most recent prepare (-1: never prepared)
    last_textures,         \* the list given to the most recent prepare of
                           \* the texture renderer or the blur compositor
    gpu_buffer,            \* a buffer of crate::buffers used on its own
    fn_args,               \* arguments of a function called on its own
    fn_result              \* what that call returned

vars == <<call, cmds, shape_instance_buffer, vp_resolution, vp_history,
          prepared_instances, tex_instance_buffer, tex_height,
          blur_instance_buffer, blur_views, bind_groups, storage_buffers,
          next_texture, blur_instances, tex_instances, max_textures,
          last_n, last_textures,
          gpu_buffer, fn_args, fn_result>>

shapeVars == <<shape_instance_buffer>>
viewportVars == <<vp_resolution, vp_history>>
textureVars == <<prepared_instances, tex_instance_buffer, tex_height,
                 blur_instance_buffer, blur_views, bind_groups,
                 storage_buffers, next_texture, blur_instances,
                 tex_instances, max_textures,
                 last_textures>>
unitVars == <<gpu_buffer, fn_args, fn_result>>

\* ------------------------------------------------------------- commands
\* device.create_buffer / create_buffer_init of `size` bytes
CreateBuffer(obj, size) == [op |-> "create_buffer", obj |-> obj, size |-> size]
\* queue.write_buffer(buffer, 0, bytes) with `len` bytes into a buffer of
\* `capacity` bytes
WriteBuffer(obj, len, capacity) ==
    [op |-> "write_buffer", obj |-> obj, len |-> len, capacity |-> capacity]
\* pass.draw_indexed(0..indices, 0, 0..instances)
DrawIndexed(obj, pass, indices, instances) ==
    [op |-> "draw_indexed", obj |-> obj, pass |-> pass,
     indices |-> indices, instances |-> instances]
\* encoder.begin_render_pass with one colour attachment `view`
BeginRenderPass(obj, pass, view, load) ==
    [op |-> "begin_render_pass", obj |-> obj, pass |-> pass,
     view |-> view, load |-> load]
\* pass.set_bind_group(0, group); the group samples texture view `view`
SetBindGroup(obj, pass, view) ==
    [op |-> "set_bind_group", obj |-> obj, pass |-> pass, view |-> view]
\* pass.set_vertex_buffer(1, instance_buffer.slice(..))
SetInstanceBuffer(obj, pass, capacity) ==
    [op |-> "set_vertex_buffer", obj |-> obj, pass |-> pass,
     capacity |-> capacity]
\* queue.write_texture at origin (0, 0, z), extent (width, height, 1)
WriteTexture(z, width, height, bytes_per_row, len) ==
    [op |-> "write_texture", obj |-> "texture", z |-> z, width |-> width,
     height |-> height, depth |-> 1, bytes_per_row |-> bytes_per_row,
     len |-> len]
\* device.create_texture(width, height) and the view made of it
CreateTexture(view, width, height) ==
    [op |-> "create_texture", obj |-> "blur", view |-> view,
     width |-> width, height |-> height]
\* device.create_bind_group sampling `view`
CreateBindGroup(view) == [op |-> "create_bind_group", obj |-> "blur", view |-> view]
\* Option::unwrap on None
Panic(obj) == [op |-> "panic", obj |-> obj]

\* ------------------------------------------------------- InstanceBuffer
\* `capacity` is the byte size of the wgpu buffer, `instances` the length
\* of the CPU-side copy of the last written slice.
InstanceBuffer_new(n, elem) ==
    [capacity |-> (elem * n) * n, instances |-> n]

InstanceBuffer_with_size(size) ==
    [capacity |-> size, instances |-> 0]

InstanceBuffer_size(buf) == buf.instances

InstanceBuffer_write(buf, n) == [buf EXCEPT !.instances = n]

Call(obj, op, n) == [obj |-> obj, op |-> op, n |-> n]

\* ------------------------------------------------------- ShapeRenderer
\* lines 151-155: the buffer prepare writes into
ShapeGrow(buf, n) ==
    LET needed_buffer_size == ShapeInstanceSize * n
    IN  IF InstanceBuffer_size(buf) < needed_buffer_size
        THEN InstanceBuffer_with_size(needed_buffer_size)
        ELSE buf

ShapeGrowCmds(buf, n) ==
    LET needed_buffer_size == ShapeInstanceSize * n
    IN  IF InstanceBuffer_size(buf) < needed_buffer_size
        THEN <<CreateBuffer("shape", needed_buffer_size)>>
        ELSE <<>>

\* prepare without the early return
ShapeNeverSkips(n) == FALSE

\* line 147: does prepare return at once?
ShapeSkips(n) == n = 0

ShapePrepare(n) ==
    /\ call' = Call("shape", "prepare", n)
    /\ last_n' = [last_n EXCEPT !.shape = n]
    /\ IF ShapeSkips(n)
       THEN /\ cmds' = <<>>
            /\ UNCHANGED shape_instance_buffer
       ELSE /\ shape_instance_buffer' =
                    InstanceBuffer_write(ShapeGrow(shape_instance_buffer, n), n)
            /\ cmds' = ShapeGrowCmds(shape_instance_buffer, n)
                        \o <<WriteBuffer("shape", ShapeInstanceSize * n,
                                        ShapeGrow(shape_instance_buffer, n).capacity)>>
    /\ UNCHANGED <<viewportVars, textureVars, unitVars>>

\* instance range of the draw issued by render
ShapeDrawInstances(buf) == InstanceBuffer_size(buf)

ShapeRender ==
    /\ call' = Call("shape", "render", 0)
    /\ cmds' = <<SetInstanceBuffer("shape", "shape", shape_instance_buffer.capacity),
                 DrawIndexed("shape", "shape", ShapeIndexCount,
                             ShapeDrawInstances(shape_instance_buffer))>>
    /\ UNCHANGED <<shapeVars, viewportVars, textureVars, last_n, unitVars>>

NextShape ==
    \/ \E n \in 0..MaxInstances : ShapePrepare(n)
    \/ ShapeRender

\* ------------------------------------------------------------ Viewport
Resolutions == (0..MaxDim) \X (0..MaxDim)

\* update without the equality check
ViewportAlwaysChanged(stored, resolution) == TRUE

\* update comparing the width only
ViewportWidthChanged(stored, resolution) == stored[1] # resolution[1]

\* line 114: does update write?
ViewportChanged(stored, resolution) == stored # resolution

ViewportUpdate(resolution) ==
    LET changed == ViewportChanged(vp_resolution, resolution)
        entry == [arg |-> resolution, before |-> vp_resolution,
                  writes |-> IF changed THEN 1 ELSE 0]
    IN  /\ call' = Call("viewport", "update", 0)
        /\ IF changed
           THEN /\ vp_resolution' = resolution
                /\ cmds' = <<WriteBuffer("viewport", ParamsSize, ParamsSize)>>
           ELSE /\ UNCHANGED vp_resolution
                /\ cmds' = <<>>
        /\ vp_history' = IF Len(vp_history) = 2
                         THEN <<vp_history[2], entry>>
                         ELSE Append(vp_history, entry)
        /\ UNCHANGED <<shapeVars, textureVars, last_n, unitVars>>

\* Viewport::resolution()
resolution == vp_resolution

NextViewport == \E r \in Resolutions : ViewportUpdate(r)

\* ------------------------------------------------------ TextureArea
\* An area as prepare reads it: buffer.width / buffer.height (after the
\* `as u32` cast), filters.blur, the length of buffer.bytes, and the
\* fields the blur instance copies (left, top, filters.blur_color).
\* scale is TextureArea.scale; buffer_scale is Buffer.scale, [1.0, 1.0]
\* unless Buffer::set_scale was called.
Area(width, height, blur) ==
    [width |-> width, height |-> height, blur |-> blur,
     bytes_len |-> 4 * width * height,
     left |-> 0, top |-> 0, blur_color |-> <<0, 0, 0, 1>>,
     scale |-> 1, buffer_scale |-> <<1, 1>>]

\* an area built with `scale: s` in the TextureArea literal
WithScale(area, s) == [area EXCEPT !.scale = s]

\* Buffer::set_scale
set_scale(area, scale_x, scale_y) ==
    [area EXCEPT !.buffer_scale = <<scale_x, scale_y>>]

\* a narrow area with every blur radius, and a row-aligned one
AreaKinds ==
    {Area(1, 1, b) : b \in 0..MaxBlur} \cup {Area(RowAlignment \div 4, 1, 0)}

\* the smallest and the largest surface given to resize
SurfaceSizes == {<<1, 1>>, <<MaxDim, MaxDim>>}

RECURSIVE ListsOver(_, _)
ListsOver(S, n) ==
    IF n = 0 THEN {<<>>}
    ELSE LET shorter == ListsOver(S, n - 1)
         IN  shorter \cup {Append(l, x) : l \in {m \in shorter : Len(m) = n - 1}, x \in S}

\* a list whose length reaches the byte size of one instance record, so
\* that the element count it leaves behind is not below the bytes a
\* later short list needs
LongList == [i \in 1..TextureInstanceSize |-> Area(1, 1, 0)]

AreaLists == ListsOver(AreaKinds, MaxAreas) \cup {LongList}

\* ------------------------------------------------------------- f32
\* An f32 is NaN or the ratio num / den of two integers (den = 0 with
\* num > 0 is +infinity).  Sums and quotients are exact: rounding of the
\* last bit is not followed.
NaN == [nan |-> TRUE, num |-> 0, den |-> 1]
F(num, den) == [nan |-> FALSE, num |-> num, den |-> den]

FAdd(x, y) ==
    IF x.nan \/ y.nan THEN NaN
    ELSE IF x.den = y.den THEN F(x.num + y.num, x.den)
    ELSE F(x.num * y.den + y.num * x.den, x.den * y.den)

FDiv(x, y) ==
    IF x.nan \/ y.nan THEN NaN
    ELSE IF x.num = 0 /\ y.num = 0 THEN NaN
    ELSE IF x.den = 0 /\ y.den = 0 THEN NaN
    ELSE IF x.den = y.den THEN F(x.num, y.num)
    ELSE F(x.num * y.den, x.den * y.num)

\* x < y, false when either is NaN
FLess(x, y) == ~x.nan /\ ~y.nan /\ x.num * y.den < y.num * x.den
\* x == y, false when either is NaN
FEq(x, y) == ~x.nan /\ ~y.nan /\ x.num * y.den = y.num * x.den

Abs(y) == IF y < 0 THEN 0 - y ELSE y

\* ------------------------------------------------- gaussian_kernel_1d
\* unit of the tabulated samples
GaussScale == 10000
\* GaussTable[sigma][|y| + 1]: the sample
\* 1 / sqrt(2 pi sigma^2) * exp(-y^2 / (2 sigma^2)) in units of
\* 1 / GaussScale, rounded up (none of these samples underflows to 0 in
\* f32)
GaussTable ==
    << <<3990, 2420, 540, 45, 2, 1, 1, 1>>,
       <<1995, 1761, 1210, 648, 270, 88, 23, 5>>,
       <<1330, 1258, 1065, 807, 547, 332, 180, 88>>,
       <<998, 967, 881, 753, 605, 457, 324, 216>>,
       <<798, 783, 737, 667, 580, 484, 389, 300>>,
       <<665, 656, 629, 587, 533, 470, 404, 337>>,
       <<570, 565, 548, 520, 485, 442, 395, 346>>,
       <<499, 495, 484, 465, 441, 411, 377, 341>>,
       <<444, 441, 433, 420, 402, 380, 355, 328>> >>

\* lines 28-29: g.  With sigma = 0 the factor 1 / sqrt(0) is +infinity
\* and the exponential is exp(NaN) (y = 0) or exp(-infinity) = 0, so g is
\* NaN for every y.
Gauss(y, sigma) ==
    IF sigma = 0 THEN NaN ELSE F(GaussTable[sigma][Abs(y) + 1], GaussScale)

\* lines 24, 32: intensity after the first i samples
RECURSIVE Intensity(_, _)
Intensity(k_values, i) ==
    IF i = 0 THEN F(0, 1) ELSE FAdd(Intensity(k_values, i - 1), k_values[i])

\* the merged offset taken from the second sample of the pair
MergedOffsetBySecond(offset, a, b) == FAdd(offset, FDiv(b, FAdd(a, b)))

\* lines 41-45: offset of the sample merged from the pair (a, b) whose
\* first sample sits at `offset`
MergedOffset(offset, a, b) ==
    LET k == FAdd(a, b)
        alpha == FDiv(a, k)
    IN  FAdd(offset, alpha)

\* a merged weight left as the raw sum
Unnormalised(k, intensity) == k

\* lines 46, 53: a merged weight
Normalised(k, intensity) == FDiv(k, intensity)

\* the function without its trailing `if`
UnpairedDropped(i, len) == FALSE

\* line 50: is a sample left over after the pairs?  (i counts from 0)
Unpaired(i, len) == i < len

gaussian_kernel_1d(radius, sigma) ==
    LET len == 2 * radius + 1
        k_values == [j \in 1..len |-> Gauss(j - 1 - radius, sigma)]
        offsets == [j \in 1..len |-> F(j - 1 - radius, 1)]
        intensity == Intensity(k_values, len)
        \* the while loop runs for i = 0, 2, 4, .. while i + 1 < len
        pairs == Cardinality({i \in 0..(len - 1) : i % 2 = 0 /\ i + 1 < len})
        i_end == 2 * pairs
        rest == Unpaired(i_end, len)
    IN  [weights |->
            [p \in 1..pairs |->
                Normalised(FAdd(k_values[2 * p - 1], k_values[2 * p]), intensity)]
            \o (IF rest THEN <<Normalised(k_values[i_end + 1], intensity)>>
                ELSE <<>>),
         offsets |->
            [p \in 1..pairs |->
                MergedOffset(offsets[2 * p - 1], k_values[2 * p - 1], k_values[2 * p])]
            \o (IF rest THEN <<offsets[i_end + 1]>> ELSE <<>>)]

\* ------------------------------------------------------- BlurRenderer
\* bind_groups: None (line 257); Some records the texture view each of the
\* two groups samples
NoBindGroups == [some |-> FALSE, horizontal |-> 0, vertical |-> 0]
\* storage_buffers: None (line 253)
NoStorageBuffers == [some |-> FALSE, metadata |-> <<>>, weights |-> <<>>,
                     offsets |-> <<>>]

\* lines 270-282: the fold over the areas lo..hi of the list, starting
\* from empty arrays.  The fold of a range is the fold of its first half
\* followed by the fold of its second half, whose start offsets
\* (weights.len() at the time of the push) are moved up by the number of
\* weights the first half appended.
\* start offsets counted in metadata entries
StartShiftByEntries(first) == Len(first.metadata)

\* line 277: weights.len() at the time of a push, seen from the areas
\* folded before it
StartShift(first) == Len(first.weights)

RECURSIVE FoldRange(_, _, _)
FoldRange(textures, lo, hi) ==
    IF lo > hi
    THEN [metadata |-> <<>>, weights |-> <<>>, offsets |-> <<>>]
    ELSE IF lo = hi
    THEN LET blur == textures[lo].blur
             local == gaussian_kernel_1d(blur * 3, blur)
         IN  [metadata |-> <<<<blur, 0>>>>,
              weights |-> local.weights,
              offsets |-> local.offsets]
    ELSE LET mid == (lo + hi) \div 2
             first == FoldRange(textures, lo, mid)
             second == FoldRange(textures, mid + 1, hi)
             base == StartShift(first)
         IN  [metadata |-> first.metadata \o
                  [i \in 1..Len(second.metadata) |->
                      <<second.metadata[i][1], second.metadata[i][2] + base>>],
              weights |-> first.weights \o second.weights,
              offsets |-> first.offsets \o second.offsets]

BlurFold(textures) == FoldRange(textures, 1, Len(textures))

\* lines 284-301: an empty array is replaced by a one-element placeholder
OrPlaceholder(folded, placeholder) ==
    IF folded = <<>> THEN <<placeholder>> ELSE folded

\* lines 284-301, 358: the three storage buffers
BlurStorage(textures) ==
    LET f == BlurFold(textures)
    IN  [some |-> TRUE,
         metadata |-> OrPlaceholder(f.metadata, <<0, 0>>),
         weights |-> OrPlaceholder(f.weights, F(0, 1)),
         offsets |-> OrPlaceholder(f.offsets, F(0, 1))]

\* lines 365-369
BlurInstance(texture) ==
    [blur_sigma |-> texture.blur,
     blur_color |-> texture.blur_color,
     rect |-> <<texture.left, texture.top, texture.width, texture.height>>]

\* lines 360-372
BlurInstances(textures) ==
    [i \in 1..Len(textures) |-> BlurInstance(textures[i])]

\* lines 376-380
PlaceholderInstance ==
    [blur_sigma |-> 0, blur_color |-> <<0, 0, 0, 0>>, rect |-> <<0, 0, 0, 0>>]

\* the collected instances written as they are
instances_as_collected(instances) == instances

\* lines 375-383
instances_to_use(instances) ==
    IF instances = <<>> THEN <<PlaceholderInstance>> ELSE instances

\* lines 375-385: instances_to_use.len()
BlurInstancesToUse(textures) ==
    Len(instances_to_use(BlurInstances(textures)))

\* lines 385-390
BlurGrow(buf, n) ==
    LET instance_buffer_size == BlurInstanceSize * n
    IN  IF InstanceBuffer_size(buf) < instance_buffer_size
        THEN InstanceBuffer_with_size(instance_buffer_size)
        ELSE buf

BlurGrowCmds(buf, n) ==
    LET instance_buffer_size == BlurInstanceSize * n
    IN  IF InstanceBuffer_size(buf) < instance_buffer_size
        THEN <<CreateBuffer("blur", instance_buffer_size)>>
        ELSE <<>>

\* BlurRenderer::prepare: the commands it issues (the storage buffers are
\* the ones prepare has just stored in self.storage_buffers)
BlurPrepareCmds(textures) ==
    LET st == storage_buffers'
        n == BlurInstancesToUse(textures)
    IN  <<CreateBuffer("metadata", 8 * Len(st.metadata)),
          CreateBuffer("weights", 4 * Len(st.weights)),
          CreateBuffer("offsets", 4 * Len(st.offsets)),
          CreateBindGroup(blur_views.intermediate),
          CreateBindGroup(blur_views.output)>>
        \o BlurGrowCmds(blur_instance_buffer, n)
        \o <<WriteBuffer("blur", BlurInstanceSize * n,
                         BlurGrow(blur_instance_buffer, n).capacity)>>

\* BlurRenderer::prepare: the fields it assigns
BlurPrepare(textures) ==
    LET n == BlurInstancesToUse(textures)
    IN  /\ storage_buffers' = BlurStorage(textures)
        /\ bind_groups' = [some |-> TRUE,
                           horizontal |-> blur_views.intermediate,
                           vertical |-> blur_views.output]
        /\ blur_instance_buffer' =
               InstanceBuffer_write(BlurGrow(blur_instance_buffer, n), n)
        /\ blur_instances' = instances_to_use(BlurInstances(textures))

\* the blur passes drawing every prepared instance
BlurDrawsAllInstances(buf) == InstanceBuffer_size(buf)

\* instance range of the draw of each blur pass
BlurDrawInstances(buf) == 1

\* the vertical pass clearing its target
VerticalAttachmentClearing(output_texture_view) ==
    [view |-> output_texture_view, load |-> "clear"]

\* lines 429-441: colour attachment of the vertical pass
VerticalAttachment(output_texture_view) ==
    [view |-> output_texture_view, load |-> "load"]

\* BlurRenderer::render
BlurRenderCmds ==
    IF ~bind_groups.some
    THEN <<Panic("blur")>>
    ELSE <<BeginRenderPass("blur", "horizontal", blur_views.output, "clear"),
           SetBindGroup("blur", "horizontal", bind_groups.horizontal),
           SetInstanceBuffer("blur", "horizontal", blur_instance_buffer.capacity),
           DrawIndexed("blur", "horizontal", TextureIndexCount,
                       BlurDrawInstances(blur_instance_buffer)),
           BeginRenderPass("blur", "vertical",
                           VerticalAttachment(TargetView).view,
                           VerticalAttachment(TargetView).load),
           SetBindGroup("blur", "vertical", bind_groups.vertical),
           SetInstanceBuffer("blur", "vertical", blur_instance_buffer.capacity),
           DrawIndexed("blur", "vertical", TextureIndexCount,
                       BlurDrawInstances(blur_instance_buffer))>>

\* BlurRenderer::resize
BlurResize(width, height) ==
    /\ blur_views' = [intermediate |-> next_texture, output |-> next_texture + 1]
    /\ next_texture' = next_texture + 2

\* ----------------------------------------------------- TextureRenderer
Min(a, b) == IF a < b THEN a ELSE b

\* u32::div_ceil
DivCeil(a, b) == (a + b - 1) \div b

\* every upload aimed at the first layer
UploadLayerZero(i) == 0

\* lines 553, 578: origin z of the upload of the area that enumerate()
\* numbers i
UploadLayer(i) == i

\* lines 521-596: the upload of area `texture`, numbered i
Upload(texture, i) ==
    LET tex_width == Min(texture.width, MaxTextureWidth)
        tex_height_ == Min(texture.height, MaxTextureHeight)
        unpadded_bytes_per_row == 4 * tex_width
        bytes_per_row == DivCeil(unpadded_bytes_per_row, RowAlignment) * RowAlignment
        \* rows y with y * unpadded + unpadded <= bytes.len()
        rows == Cardinality({y \in 0..(tex_height_ - 1) :
                    y * unpadded_bytes_per_row + unpadded_bytes_per_row
                        <= texture.bytes_len})
    IN  IF bytes_per_row # unpadded_bytes_per_row
        THEN WriteTexture(UploadLayer(i), tex_width, tex_height_, bytes_per_row,
                          rows * bytes_per_row)
        ELSE WriteTexture(UploadLayer(i), tex_width, tex_height_, bytes_per_row,
                          texture.bytes_len)

\* lines 530-546, 573-583: the rows of the data handed to write_texture.
\* Row y of the upload is read from byte y * bytes_per_row of that data;
\* `start` is the offset in buffer.bytes that its pixels were taken from
\* (-1 when the data ends before the row), `pixels` the pixels taken and
\* `padding` the zero bytes that follow them.
UploadRows(texture) ==
    LET tex_width == Min(texture.width, MaxTextureWidth)
        tex_height_ == Min(texture.height, MaxTextureHeight)
        unpadded_bytes_per_row == 4 * tex_width
        bytes_per_row == DivCeil(unpadded_bytes_per_row, RowAlignment) * RowAlignment
        Present(row_start) ==
            row_start + unpadded_bytes_per_row <= texture.bytes_len
        \* the y for which the padded branch copies a row, in order
        copied == {y \in 0..(tex_height_ - 1) :
                      Present(y * unpadded_bytes_per_row)}
        \* the y-th copied row (rows with row_end past the slice are left
        \* out)
        Nth(k) == CHOOSE y \in copied :
                      Cardinality({z \in copied : z < y}) = k
    IN  [y \in 1..tex_height_ |->
            IF bytes_per_row # unpadded_bytes_per_row
            THEN IF y <= Cardinality(copied)
                 THEN [start |-> Nth(y - 1) * unpadded_bytes_per_row,
                       pixels |-> tex_width,
                       padding |-> bytes_per_row - unpadded_bytes_per_row]
                 ELSE [start |-> 0 - 1, pixels |-> 0, padding |-> 0]
            ELSE IF Present((y - 1) * bytes_per_row)
                 THEN [start |-> (y - 1) * bytes_per_row,
                       pixels |-> tex_width, padding |-> 0]
                 ELSE [start |-> 0 - 1, pixels |-> 0, padding |-> 0]]

\* the buffer kept whatever the list needs
TextureKeeps(buf, n) == buf

\* lines 599-604
TextureGrow(buf, n) ==
    LET instance_buffer_size == TextureInstanceSize * n
    IN  IF InstanceBuffer_size(buf) < instance_buffer_size
        THEN InstanceBuffer_with_size(instance_buffer_size)
        ELSE buf

TextureGrowCmds(buf, n) ==
    LET instance_buffer_size == TextureInstanceSize * n
    IN  IF InstanceBuffer_size(buf) < instance_buffer_size
        THEN <<CreateBuffer("texture", instance_buffer_size)>>
        ELSE <<>>

\* prepare without the early return
TextureNeverSkips(n) == FALSE

\* prepare returning early for a single area as well
TextureSkipsSingle(n) == n <= 1

\* line 482: does prepare return before any upload?
TextureSkips(n) == n = 0

\* the count assigned only after the early return
PreparedCountStale(textures) ==
    IF Len(textures) = 0 THEN prepared_instances ELSE Len(textures)

\* line 480: the value prepare stores in prepared_instances
PreparedCount(textures) == Len(textures)

\* lines 489-519: the instance record pushed for one area
TextureInstance(texture) ==
    [scale |-> texture.buffer_scale,
     rect |-> <<texture.left, texture.top, texture.width, texture.height>>]

TexturePrepare(textures) ==
    LET n == Len(textures)
    IN  /\ call' = Call("texture", "prepare", n)
        /\ last_n' = [last_n EXCEPT !.texture = n]
        /\ last_textures' = textures
        /\ prepared_instances' = PreparedCount(textures)
        /\ IF TextureSkips(n)
           THEN /\ cmds' = <<>>
                /\ UNCHANGED <<tex_instance_buffer, blur_instance_buffer,
                               bind_groups, storage_buffers, blur_instances,
                               tex_instances>>
           ELSE /\ tex_instance_buffer' =
                       InstanceBuffer_write(TextureGrow(tex_instance_buffer, n), n)
                /\ tex_instances' = [i \in 1..n |-> TextureInstance(textures[i])]
                /\ BlurPrepare(textures)
                /\ cmds' = [i \in 1..n |-> Upload(textures[i], i - 1)]
                           \o TextureGrowCmds(tex_instance_buffer, n)
                           \o <<WriteBuffer("texture", TextureInstanceSize * n,
                                    TextureGrow(tex_instance_buffer, n).capacity)>>
                           \o BlurPrepareCmds(textures)
        /\ UNCHANGED <<tex_height, blur_views, next_texture, max_textures,
                       shapeVars, viewportVars, unitVars>>

TextureResize(width, height) ==
    /\ next_texture < FirstFreeTexture + 2 * MaxResizes
    /\ call' = Call("texture", "resize", 0)
    /\ tex_height' = height
    /\ BlurResize(width, height)
    /\ cmds' = <<CreateTexture(next_texture, width, height),
                 CreateTexture(next_texture + 1, width, height)>>
    /\ UNCHANGED <<prepared_instances, tex_instance_buffer, blur_instance_buffer,
                   bind_groups, storage_buffers, blur_instances, tex_instances,
                   max_textures, last_n, last_textures, shapeVars,
                   viewportVars, unitVars>>

\* render without the early return
RenderNeverSkips(prepared) == FALSE

\* line 617: does render return at once?
RenderSkips(prepared) == prepared = 0

\* instance range of the geometry draw
TextureDrawInstances(prepared) == prepared

\* lines 617-656: what one render records in the current state
TextureRenderCmds ==
    IF RenderSkips(prepared_instances)
    THEN <<>>
    ELSE <<BeginRenderPass("texture", "geometry",
                           blur_views.intermediate, "clear"),
           SetInstanceBuffer("texture", "geometry",
                             tex_instance_buffer.capacity),
           DrawIndexed("texture", "geometry", TextureIndexCount,
                       TextureDrawInstances(prepared_instances))>>
         \o BlurRenderCmds

\* a render that uses up what prepare stored
PreparedConsumed(prepared) == 0

\* line 611: render takes &self, the count stays as prepare left it
PreparedAfterRender(prepared) == prepared

TextureRender ==
    /\ call' = Call("texture", "render", 0)
    /\ cmds' = TextureRenderCmds
    /\ prepared_instances' = PreparedAfterRender(prepared_instances)
    /\ UNCHANGED <<tex_instance_buffer, tex_height, blur_instance_buffer,
                   blur_views, bind_groups, storage_buffers, next_texture,
                   blur_instances, tex_instances, max_textures,
                   last_textures, last_n, shapeVars, viewportVars, unitVars>>

NextTexture ==
    \/ \E textures \in AreaLists : TexturePrepare(textures)
    \/ \E size \in SurfaceSizes : TextureResize(size[1], size[2])
    \/ TextureRender

\* ------------------------------------- BlurRenderer called on its own
BlurPrepareCall(textures) ==
    /\ call' = Call("blur", "prepare", Len(textures))
    /\ last_textures' = textures
    /\ BlurPrepare(textures)
    /\ cmds' = BlurPrepareCmds(textures)
    /\ UNCHANGED <<prepared_instances, tex_instance_buffer, tex_height,
                   blur_views, next_texture, tex_instances, max_textures,
                   last_n, shapeVars, viewportVars, unitVars>>

BlurResizeCall(width, height) ==
    /\ next_texture < FirstFreeTexture + 2 * MaxResizes
    /\ call' = Call("blur", "resize", 0)
    /\ BlurResize(width, height)
    /\ cmds' = <<CreateTexture(next_texture, width, height),
                 CreateTexture(next_texture + 1, width, height)>>
    /\ UNCHANGED <<prepared_instances, tex_instance_buffer, tex_height,
                   blur_instance_buffer, bind_groups, storage_buffers,
                   blur_instances, tex_instances, max_textures, last_n,
                   last_textures, shapeVars, viewportVars, unitVars>>

BlurRenderCall ==
    /\ call' = Call("blur", "render", 0)
    /\ cmds' = BlurRenderCmds
    /\ UNCHANGED <<textureVars, last_n, shapeVars, viewportVars, unitVars>>

NextBlur ==
    \/ \E textures \in AreaLists : BlurPrepareCall(textures)
    \/ \E size \in SurfaceSizes : BlurResizeCall(size[1], size[2])
    \/ BlurRenderCall

\* ---------------------------------------------------------------- Init
\* no buffer of crate::buffers made on its own yet
NoBuffer == [kind |-> "none", capacity |-> 0, read |-> 0, elements |-> 0,
             fault |-> FALSE]
\* no function called on its own
NoArgs == [fn |-> "none"]
NoResult == [done |-> FALSE]

\* the renderers and the viewport after construction
InitRenderers ==
    /\ call = Call("none", "new", 0)
    /\ cmds = <<>>
    /\ shape_instance_buffer = InstanceBuffer_new(0, ShapeInstanceSize)
    /\ vp_resolution = <<0, 0>>
    /\ vp_history = <<>>
    /\ prepared_instances = 0
    /\ tex_instance_buffer = InstanceBuffer_new(0, TextureInstanceSize)
    /\ tex_height = 0
    /\ blur_instance_buffer = InstanceBuffer_new(0, BlurInstanceSize)
    /\ blur_views = [intermediate |-> 1, output |-> 2]
    /\ bind_groups = NoBindGroups
    /\ storage_buffers = NoStorageBuffers
    /\ next_texture = FirstFreeTexture
    /\ blur_instances = <<>>
    /\ tex_instances = <<>>
    /\ last_n = [shape |-> 0 - 1, texture |-> 0 - 1]
    /\ last_textures = <<>>

\* line 267: the layer count TextureRenderer::new passes on
DefaultLayers == 256

Init ==
    /\ InitRenderers
    /\ max_textures = DefaultLayers
    /\ gpu_buffer = NoBuffer
    /\ fn_args = NoArgs
    /\ fn_result = NoResult

SpecShape == Init /\ [][NextShape]_vars
SpecViewport == Init /\ [][NextViewport]_vars
SpecTexture == Init /\ [][NextTexture]_vars
SpecBlur == Init /\ [][NextBlur]_vars

\* ------------------------------------ prepare calls on both renderers
\* an empty, a one-element and a long slice of shape instances
PrepareCounts == {0, 1, MaxInstances}

\* lists of plain one-pixel areas, and the long list
PrepareLists == ListsOver({Area(1, 1, 0)}, MaxAreas) \cup {LongList}

NextPrepare ==
    \/ \E n \in PrepareCounts : ShapePrepare(n)
    \/ \E textures \in PrepareLists : TexturePrepare(textures)

SpecPrepare == Init /\ [][NextPrepare]_vars

\* --------------------------------------- areas that differ in scale only
\* one-pixel areas with every TextureArea.scale and every Buffer.scale
ScaleAreaKinds ==
    {set_scale(WithScale(Area(1, 1, 0), s), b, b) :
        s \in 1..MaxScale, b \in 1..MaxScale}

ScaleAreaLists == ListsOver(ScaleAreaKinds, MaxAreas)

NextAreas ==
    \/ \E textures \in ScaleAreaLists : TexturePrepare(textures)
    \/ \E size \in SurfaceSizes : TextureResize(size[1], size[2])
    \/ TextureRender

SpecAreas == Init /\ [][NextAreas]_vars

\* ------------------------------------------- a renderer with few layers
\* lines 270-289: TextureRenderer::with_layers(.., max_textures)
with_layers(layers) ==
    /\ InitRenderers
    /\ max_textures = layers

InitLayers ==
    /\ \E layers \in 1..MaxLayers : with_layers(layers)
    /\ gpu_buffer = NoBuffer
    /\ fn_args = NoArgs
    /\ fn_result = NoResult

SpecLayers == InitLayers /\ [][NextAreas]_vars

\* --------------------------------------- the upload step called on its own
\* lengths of buffer.bytes around the 4 * width * height bytes of a full
\* image
SliceLens(width, height) ==
    {len \in {0, 4 * width * height - 1, 4 * width * height,
              4 * width * height + 1} : len >= 0}

\* narrow, row-aligned and wider-than-a-layer areas, each with a short, an
\* exact and a long byte slice
UploadWidths == {1, 2, RowAlignment \div 4, MaxTextureWidth + 1}

UploadAreas ==
    UNION {{[Area(w, h, 0) EXCEPT !.bytes_len = len] : len \in SliceLens(w, h)} :
              w \in UploadWidths, h \in 0..MaxDim}

UploadInputs ==
    {[fn |-> "upload", texture |-> t, i |-> i] :
        t \in UploadAreas, i \in 0..(MaxAreas - 1)}

InitUpload ==
    /\ InitRenderers
    /\ max_textures = DefaultLayers
    /\ gpu_buffer = NoBuffer
    /\ fn_args \in UploadInputs
    /\ fn_result = NoResult

\* lines 521-596 for one area
UploadApply ==
    /\ fn_args.fn = "upload"
    /\ ~fn_result.done
    /\ fn_result' = [done |-> TRUE,
                     cmd |-> Upload(fn_args.texture, fn_args.i),
                     rows |-> UploadRows(fn_args.texture)]
    /\ UNCHANGED <<call, cmds, shapeVars, viewportVars, textureVars, last_n,
                   gpu_buffer, fn_args>>

NextUpload == UploadApply
SpecUpload == InitUpload /\ [][NextUpload]_vars

\* --------------------------------------- crate::buffers used on its own
\* the implementations of GpuBuffer, and StorageBuffer, which has new only
GpuBufferKinds == {"index", "vertex", "instance"}
BufferKinds == GpuBufferKinds \cup {"storage"}

ElementSize(kind) ==
    CASE kind = "index" -> IndexSize
      [] kind = "vertex" -> VertexSize
      [] kind = "instance" -> BlurInstanceSize
      [] kind = "storage" -> StorageElementSize

\* length in bytes of the `contents` slice new builds over a slice of n
\* elements: size_of_val(data), and for InstanceBuffer
\* size_of_val(data) * data.len()
ContentsLen(kind, n) ==
    IF kind = "instance"
    THEN InstanceBuffer_new(n, ElementSize(kind)).capacity
    ELSE ElementSize(kind) * n

\* `capacity` is the byte size asked of the device, `read` the bytes the
\* call read from the slice it was given, `elements` what size() returns.
\* `fault` is set when a read past the end of the slice ended the process.
GpuBuffer_new(kind, n) ==
    [kind |-> kind, capacity |-> ContentsLen(kind, n),
     read |-> ContentsLen(kind, n), elements |-> n, fault |-> FALSE]

GpuBuffer_with_size(kind, size) ==
    [kind |-> kind, capacity |-> size, read |-> 0, elements |-> 0,
     fault |-> FALSE]

GpuBuffer_size(buf) == buf.elements

\* IndexBuffer::write and VertexBuffer::write have an empty body
GpuBuffer_write(buf, n) ==
    IF buf.kind = "instance"
    THEN LET written == InstanceBuffer_write(
                            [capacity |-> buf.capacity, instances |-> buf.elements], n)
         IN  [buf EXCEPT !.elements = InstanceBuffer_size(written),
                         !.read = ElementSize(buf.kind) * n]
    ELSE [buf EXCEPT !.read = 0]

\* new: a `contents` slice longer than the data reads memory past its end,
\* which either yields whatever bytes lie there or faults
BufferNew(kind, n) ==
    /\ ~gpu_buffer.fault
    /\ call' = Call(kind, "new", n)
    /\ \E fault \in (IF ContentsLen(kind, n) > ElementSize(kind) * n
                      THEN BOOLEAN ELSE {FALSE}) :
           IF fault
           THEN /\ gpu_buffer' = [GpuBuffer_new(kind, n) EXCEPT
                                     !.capacity = 0, !.fault = TRUE]
                /\ cmds' = <<>>
           ELSE /\ gpu_buffer' = GpuBuffer_new(kind, n)
                /\ cmds' = <<CreateBuffer(kind, GpuBuffer_new(kind, n).capacity)>>
    /\ UNCHANGED <<shapeVars, viewportVars, textureVars, last_n, fn_args,
                   fn_result>>

BufferWithSize(kind, size) ==
    /\ ~gpu_buffer.fault
    /\ call' = Call(kind, "with_size", size)
    /\ gpu_buffer' = GpuBuffer_with_size(kind, size)
    /\ cmds' = <<CreateBuffer(kind, size)>>
    /\ UNCHANGED <<shapeVars, viewportVars, textureVars, last_n, fn_args,
                   fn_result>>

BufferWrite(n) ==
    /\ ~gpu_buffer.fault
    /\ gpu_buffer.kind \in GpuBufferKinds
    /\ call' = Call(gpu_buffer.kind, "write", n)
    /\ gpu_buffer' = GpuBuffer_write(gpu_buffer, n)
    /\ cmds' = IF gpu_buffer.kind = "instance"
               THEN <<WriteBuffer(gpu_buffer.kind, ElementSize(gpu_buffer.kind) * n,
                                  gpu_buffer.capacity)>>
               ELSE <<>>
    /\ UNCHANGED <<shapeVars, viewportVars, textureVars, last_n, fn_args,
                   fn_result>>

NextBuffers ==
    \/ \E kind \in BufferKinds, n \in 0..MaxElements : BufferNew(kind, n)
    \/ \E kind \in GpuBufferKinds, n \in 0..MaxElements :
           BufferWithSize(kind, ElementSize(kind) * n)
    \/ \E n \in 0..MaxElements : BufferWrite(n)

SpecBuffers == Init /\ [][NextBuffers]_vars

\* ---------------------------------- gaussian_kernel_1d called on its own
\* every radius with every sigma > 0, and the call (0, 0.0) that prepare
\* makes for an area with blur 0
KernelInputs ==
    {[fn |-> "gaussian_kernel_1d", radius |-> r, sigma |-> sg] :
        r \in 0..MaxRadius, sg \in 1..MaxSigma}
    \cup {[fn |-> "gaussian_kernel_1d", radius |-> 0, sigma |-> 0]}

InitKernel ==
    /\ InitRenderers
    /\ max_textures = DefaultLayers
    /\ gpu_buffer = NoBuffer
    /\ fn_args \in KernelInputs
    /\ fn_result = NoResult

KernelApply ==
    /\ fn_args.fn = "gaussian_kernel_1d"
    /\ ~fn_result.done
    /\ fn_result' =
           LET kernel == gaussian_kernel_1d(fn_args.radius, fn_args.sigma)
           IN  [done |-> TRUE, weights |-> kernel.weights,
                offsets |-> kernel.offsets]
    /\ UNCHANGED <<call, cmds, shapeVars, viewportVars, textureVars, last_n,
                   gpu_buffer, fn_args>>

NextKernel == KernelApply
SpecKernel == InitKernel /\ [][NextKernel]_vars

\* ------------------------------------------ Image::pad called on its own
\* An image of width x height pixels.  data is kept pixel by pixel (four
\* bytes each): source pixel number k is the value k, a pixel of the
\* border colour is 0.
Image(width, height) ==
    [width |-> width, height |-> height,
     data |-> [k \in 1..(width * height) |-> k]]

ColourPixel == 0

\* ((a - b) as u32) / 2 when overflow checks are off: the difference wraps
\* modulo 2^32.  For a < b that is (2^32 - (b - a)) / 2, written so that no
\* intermediate value leaves 32 signed bits.
HalfWrappingSub(a, b) ==
    IF a >= b THEN (a - b) \div 2
    ELSE 2147483647 - ((b - a - 1) \div 2)

\* lines 178-204
crop(self, x, y, width, height) ==
    IF self.width = width /\ self.height = height
    THEN self
    ELSE LET x_ == Min(x, self.width)
             y_ == Min(y, self.height)
             width_ == Min(width, self.width - x_)
             height_ == Min(height, self.height - y_)
             begin == y_ * self.width + x_
             stride == self.width
         IN  [width |-> width_, height |-> height_,
              data |-> [k \in 1..(width_ * height_) |->
                          self.data[begin + ((k - 1) \div width_) * stride
                                    + ((k - 1) % width_) + 1]]]

\* lines 131-132: does one of the two subtractions go below zero?
PadUnderflows(self, width, height) ==
    /\ self.width > width \/ self.height > height
    /\ self.width < width \/ self.height < height

\* lines 123-176, with the subtractions of lines 131-132 wrapping.  The
\* result carries the image pad returns and the widths its rows were
\* built from.
pad(self, width, height) ==
    LET img == IF self.width > width \/ self.height > height
               THEN crop(self, HalfWrappingSub(self.width, width),
                         HalfWrappingSub(self.height, height), width, height)
               ELSE crop(self, 0, 0, width, height)
        img_w == Min(img.width, width)
        img_h == Min(img.height, height)
        top == ((height - img_h) \div 2) * width
        left_border_w == (width - img_w) \div 2
        right_border_w == left_border_w + (img_w % 2)
        row_w == left_border_w + img_w + right_border_w
        rows == [k \in 1..(img_h * row_w) |->
                    LET row == (k - 1) \div row_w
                        col == (k - 1) % row_w
                    IN  IF col < left_border_w \/ col >= left_border_w + img_w
                        THEN ColourPixel
                        ELSE img.data[row * img_w + (col - left_border_w) + 1]]
        missing == width * height - (top + Len(rows))
        fill == [k \in 1..(IF missing > 0 THEN missing ELSE 0) |-> ColourPixel]
    IN  [image |-> [width |-> width, height |-> height,
                    data |-> [k \in 1..top |-> ColourPixel] \o rows \o fill],
         img_w |-> img_w, img_h |-> img_h,
         left_border_w |-> left_border_w, right_border_w |-> right_border_w]

\* source and target sizes up to MaxSide in each direction
PadInputs ==
    {[fn |-> "pad", self |-> Image(w, h), width |-> width, height |-> height] :
        w \in 0..MaxSide, h \in 0..MaxSide,
        width \in 0..MaxSide, height \in 0..MaxSide}

InitPad ==
    /\ InitRenderers
    /\ max_textures = DefaultLayers
    /\ gpu_buffer = NoBuffer
    /\ fn_args \in PadInputs
    /\ fn_result = NoResult

\* One call of pad.  A subtraction that goes below zero panics in a build
\* with overflow checks and wraps in a build without them.
PadApply ==
    /\ fn_args.fn = "pad"
    /\ ~fn_result.done
    /\ \E overflow_checks \in BOOLEAN :
        LET underflows == PadUnderflows(fn_args.self, fn_args.width,
                                        fn_args.height)
        IN  fn_result' =
              IF underflows /\ overflow_checks
              THEN [done |-> TRUE, panic |-> TRUE, wrapped |-> FALSE]
              ELSE [done |-> TRUE, panic |-> FALSE, wrapped |-> underflows,
                    padded |-> pad(fn_args.self, fn_args.width,
                                   fn_args.height)]
    /\ UNCHANGED <<call, cmds, shapeVars, viewportVars, textureVars, last_n,
                   gpu_buffer, fn_args>>

NextPad == PadApply
SpecPad == InitPad /\ [][NextPad]_vars

Next ==
    \/ NextShape \/ NextViewport \/ NextTexture \/ NextBlur
    \/ NextBuffers \/ NextUpload \/ NextKernel \/ NextAreas
    \/ NextPrepare \/ NextPad
Spec == Init /\ [][Next]_vars

\* ================================================================ claims

\* the most recent call was `op` on renderer `obj`
Called(obj, op) == call.obj = obj /\ call.op = op

\* C1: across prepare calls on one renderer the byte capacity of its
\* instance buffer never decreases.
C1_CapacityNeverDecreases ==
    [][/\ shape_instance_buffer'.capacity >= shape_instance_buffer.capacity
       /\ tex_instance_buffer'.capacity >= tex_instance_buffer.capacity
       /\ blur_instance_buffer'.capacity >= blur_instance_buffer.capacity]_vars

\* a prepare of n > 0 records replaced the buffer (old -> new) exactly when
\* n * elem exceeds the old capacity, then to exactly n * elem bytes
GrowsIffLarger(obj, elem, n, old, new, issued) ==
    LET replaced == \E i \in 1..Len(issued) :
                        issued[i].op = "create_buffer" /\ issued[i].obj = obj
    IN  /\ replaced <=> elem * n > old.capacity
        /\ replaced => new.capacity = elem * n
        /\ ~replaced => new.capacity = old.capacity

\* C2: a prepare with N > 0 instances replaces the instance buffer by a
\* fresh one of exactly N * elementSize bytes iff N * elementSize is
\* larger than the current capacity; otherwise the buffer is kept.
C2_ReplacedIffLarger ==
    [][/\ (call'.obj = "shape" /\ call'.op = "prepare" /\ call'.n > 0)
            => GrowsIffLarger("shape", ShapeInstanceSize, call'.n,
                              shape_instance_buffer, shape_instance_buffer', cmds')
       /\ (call'.obj = "texture" /\ call'.op = "prepare" /\ call'.n > 0)
            => /\ GrowsIffLarger("texture", TextureInstanceSize, call'.n,
                                 tex_instance_buffer, tex_instance_buffer', cmds')
               /\ GrowsIffLarger("blur", BlurInstanceSize, call'.n,
                                 blur_instance_buffer, blur_instance_buffer', cmds')
      ]_vars

\* draw_indexed commands of the most recent call in pass `pass`
Draws(pass) == {i \in 1..Len(cmds) : cmds[i].op = "draw_indexed" /\ cmds[i].pass = pass}

\* C3: ShapeRenderer.render after a most recent prepare of N instances
\* draws nothing when N = 0 (no instance of an earlier prepare is drawn)
\* and issues exactly one indexed draw of N instances when N > 0.
C3_ShapeRenderDrawsLastPrepared ==
    (Called("shape", "render") /\ last_n.shape >= 0) =>
        IF last_n.shape = 0
        THEN \A i \in Draws("shape") : cmds[i].instances = 0
        ELSE /\ Cardinality(Draws("shape")) = 1
             /\ \A i \in Draws("shape") : cmds[i].instances = last_n.shape

\* C4: TextureRenderer.render after a most recent prepare of N areas
\* records no pass and no draw when N = 0, and when N > 0 its geometry
\* pass issues exactly one indexed draw of N instances.
C4_TextureRenderDrawsLastPrepared ==
    (Called("texture", "render") /\ last_n.texture >= 0) =>
        IF last_n.texture = 0
        THEN cmds = <<>>
        ELSE /\ Cardinality(Draws("geometry")) = 1
             /\ \A i \in Draws("geometry") : cmds[i].instances = last_n.texture

\* render ran after an empty prepare that followed a non-empty one
C4_Witness ==
    /\ Called("texture", "render")
    /\ last_n.texture = 0
    /\ tex_instance_buffer.instances > 0

\* C5: after TextureRenderer.prepare with N areas (N >= 0) the
\* prepared-instance count is N.
C5_PreparedCountIsLength ==
    Called("texture", "prepare") => prepared_instances = call.n

\* an empty prepare after a non-empty frame
C5_Witness ==
    /\ Called("texture", "prepare")
    /\ call.n = 0
    /\ tex_instance_buffer.instances > 0

\* the last two Viewport::update calls were given the same resolution
SameTwice ==
    /\ Len(vp_history) = 2
    /\ vp_history[1].arg = vp_history[2].arg

\* C6 (as claimed): two consecutive update(r) calls issue exactly one
\* device write in total, whatever r and the state before.
C6_TwoUpdatesOneWrite ==
    SameTwice => vp_history[1].writes + vp_history[2].writes = 1

\* C6 (amended): two consecutive update(r) calls issue exactly one device
\* write in total when r differs from the resolution stored before the
\* first call, and none when r is the stored resolution.
C6_TwoUpdatesOneWriteIfChanged ==
    SameTwice =>
        vp_history[1].writes + vp_history[2].writes
            = IF vp_history[1].arg # vp_history[1].before THEN 1 ELSE 0

\* update(r), update(r) where the first one wrote
C6_Witness ==
    /\ SameTwice
    /\ vp_history[1].arg # vp_history[1].before
    /\ vp_history[1].writes = 1

\* C7: resolution() is the argument of the most recent update, and an
\* update given the stored resolution writes nothing and changes nothing.
C7_ResolutionIsLastUpdate ==
    Len(vp_history) > 0 =>
        LET last == vp_history[Len(vp_history)]
        IN  /\ resolution = last.arg
            /\ last.arg = last.before =>
                   /\ last.writes = 0
                   /\ cmds = <<>>
                   /\ vp_resolution = last.before

\* a no-op update that follows a writing update
C7_Witness ==
    /\ Len(vp_history) = 2
    /\ vp_history[1].writes = 1
    /\ vp_history[2].arg = vp_history[2].before
    /\ vp_history[2].arg # <<0, 0>>

\* C8: ShapeRenderer.prepare with an empty list leaves the instance
\* buffer (object, capacity, element count) as it was and queues nothing.
C8_ShapeEmptyPrepareIsNoOp ==
    [][(call'.obj = "shape" /\ call'.op = "prepare" /\ call'.n = 0)
          => /\ shape_instance_buffer' = shape_instance_buffer
             /\ cmds' = <<>>]_vars

\* an empty prepare on a buffer that holds instances
C8_Witness ==
    /\ Called("shape", "prepare")
    /\ call.n = 0
    /\ shape_instance_buffer.instances > 0

\* C9: TextureRenderer.prepare with an empty list uploads nothing, writes
\* and reallocates no instance buffer and leaves the blur compositor
\* alone; only the prepared-instance count changes, to 0.
C9_TextureEmptyPrepareOnlyResetsCount ==
    [][(call'.obj = "texture" /\ call'.op = "prepare" /\ call'.n = 0)
          => /\ cmds' = <<>>
             /\ prepared_instances' = 0
             /\ UNCHANGED <<tex_instance_buffer, tex_height,
                            blur_instance_buffer, blur_views, bind_groups,
                            storage_buffers, next_texture,
                            blur_instances>>]_vars

\* an empty prepare after a frame that prepared the blur compositor
C9_Witness ==
    /\ Called("texture", "prepare")
    /\ call.n = 0
    /\ bind_groups.some
    /\ storage_buffers.some
    /\ blur_instance_buffer.instances > 0

\* the blur compositor's render ran in the most recent call
BlurRendered ==
    \E i \in 1..Len(cmds) : cmds[i].op = "begin_render_pass" /\ cmds[i].obj = "blur"

\* C10: whenever the blur compositor renders, its horizontal and its
\* vertical pass each issue exactly one indexed draw of 1 instance.
C10_BlurDrawsOncePerPass ==
    BlurRendered =>
        \A pass \in {"horizontal", "vertical"} :
            /\ Cardinality(Draws(pass)) = 1
            /\ \A i \in Draws(pass) : cmds[i].instances = 1

\* the blur passes ran with several areas prepared, one of them blurred
C10_Witness ==
    /\ BlurRendered
    /\ prepared_instances >= 2
    /\ blur_instance_buffer.instances >= 2
    /\ \E i \in 1..Len(storage_buffers.metadata) :
           storage_buffers.metadata[i][1] > 0

\* the blur compositor's prepare ran in the most recent call
BlurPrepared ==
    \/ Called("blur", "prepare")
    \/ Called("texture", "prepare") /\ call.n > 0

\* C11: after every BlurRenderer.prepare the blur instance buffer holds at
\* least one BlurInstance, the instances of the areas in order; for the
\* empty list it holds exactly one placeholder with blur_sigma 0, zero
\* colour and zero rect.
C11_BlurBufferNeverEmpty ==
    BlurPrepared =>
        /\ Len(blur_instances) >= 1
        /\ InstanceBuffer_size(blur_instance_buffer) = Len(blur_instances)
        /\ \E i \in 1..Len(cmds) :
               /\ cmds[i].op = "write_buffer" /\ cmds[i].obj = "blur"
               /\ cmds[i].len = BlurInstanceSize * Len(blur_instances)
        /\ last_textures = <<>> =>
               blur_instances =
                   <<[blur_sigma |-> 0, blur_color |-> <<0, 0, 0, 0>>,
                      rect |-> <<0, 0, 0, 0>>]>>
        /\ last_textures # <<>> =>
               /\ Len(blur_instances) = Len(last_textures)
               /\ \A i \in 1..Len(last_textures) :
                      /\ blur_instances[i].blur_sigma = last_textures[i].blur
                      /\ blur_instances[i].rect[3] = last_textures[i].width

\* the compositor was prepared with the empty list, and the placeholder
\* was written into a buffer made for it
C11_Witness ==
    /\ Called("blur", "prepare")
    /\ call.n = 0
    /\ last_textures = <<>>
    /\ Len(blur_instances) = 1
    /\ blur_instance_buffer.capacity = BlurInstanceSize

\* the areas of the most recent prepare that request blur, in order
Blurred == {i \in 1..Len(last_textures) : last_textures[i].blur > 0}

\* number of weights the kernels of the blurred areas hold
RECURSIVE BlurredWeights(_)
BlurredWeights(areas) ==
    IF areas = {} THEN 0
    ELSE LET i == CHOOSE x \in areas : TRUE
         IN  (3 * last_textures[i].blur + 1) + BlurredWeights(areas \ {i})

\* C12: after BlurRenderer.prepare the metadata, weights and offsets
\* arrays hold entries for exactly the areas with blur > 0, one metadata
\* entry per such area; when no area has blur > 0 each of the three
\* buffers holds exactly one placeholder element and the placeholder
\* weight is zero.
C12_StorageHoldsBlurredAreasOnly ==
    BlurPrepared =>
        IF Blurred = {}
        THEN /\ storage_buffers.metadata = <<<<0, 0>>>>
             /\ Len(storage_buffers.weights) = 1
             /\ FEq(storage_buffers.weights[1], F(0, 1))
             /\ Len(storage_buffers.offsets) = 1
        ELSE /\ Len(storage_buffers.metadata) = Cardinality(Blurred)
             /\ \A m \in 1..Len(storage_buffers.metadata) :
                    storage_buffers.metadata[m][1] > 0
             /\ Len(storage_buffers.weights) = BlurredWeights(Blurred)
             /\ Len(storage_buffers.offsets) = BlurredWeights(Blurred)

\* the upload step returned for the area fn_args.texture
Uploaded == fn_args.fn = "upload" /\ fn_result.done

\* C13: for every area whose uploaded width w (clamped to the layer
\* width) has 4 * w not a multiple of 256, the row stride given to the
\* upload is ceil(4 * w / 256) * 256 and the padded buffer handed to the
\* upload is that stride times the uploaded height long, whatever byte
\* slice the caller supplies.
C13_PaddedBufferIsStrideTimesHeight ==
    Uploaded =>
        LET w == Min(fn_args.texture.width, MaxTextureWidth)
            h == Min(fn_args.texture.height, MaxTextureHeight)
            stride == ((4 * w + 255) \div 256) * 256
        IN  (4 * w) % 256 # 0 =>
                /\ fn_result.cmd.bytes_per_row = stride
                /\ fn_result.cmd.len = stride * h

\* gaussian_kernel_1d returned for (fn_args.radius, fn_args.sigma)
KernelReturned == fn_args.fn = "gaussian_kernel_1d" /\ fn_result.done

\* C14: gaussian_kernel_1d(radius, sigma) returns a weights list and an
\* offsets list of equal length, and that length is
\* ceil((2 * radius + 1) / 2) = radius + 1.
C14_KernelLength ==
    KernelReturned =>
        /\ Len(fn_result.weights) = Len(fn_result.offsets)
        /\ Len(fn_result.weights) = fn_args.radius + 1
        /\ Len(fn_result.weights) = ((2 * fn_args.radius + 1) + 1) \div 2

\* a kernel of several pairs and the unpaired sample
C14_Witness ==
    /\ KernelReturned
    /\ fn_args.radius >= 3
    /\ Len(fn_result.weights) >= 4

\* sum of the first n elements of a list of f32
RECURSIVE FSum(_, _)
FSum(list, n) == IF n = 0 THEN F(0, 1) ELSE FAdd(FSum(list, n - 1), list[n])

\* the raw sample at position y of the kernel that was asked for
Raw(y) == Gauss(y, fn_args.sigma)
\* the total of all 2 * radius + 1 raw samples
RawTotal ==
    FSum([j \in 1..(2 * fn_args.radius + 1) |-> Raw(j - 1 - fn_args.radius)],
         2 * fn_args.radius + 1)

\* C15: for sigma > 0 the merged weights sum to 1: the p-th merged weight
\* is the sum of raw samples 2p-1 and 2p divided by the total of all raw
\* samples, the last one is the last raw sample divided by that total, so
\* every raw sample is counted in exactly one merged weight.
C15_WeightsSumToOne ==
    (KernelReturned /\ fn_args.sigma > 0) =>
        LET r == fn_args.radius
        IN  /\ FEq(FSum(fn_result.weights, Len(fn_result.weights)), F(1, 1))
            /\ Len(fn_result.weights) = r + 1
            /\ \A p \in 1..r :
                   FEq(fn_result.weights[p],
                       FDiv(FAdd(Raw(2 * (p - 1) - r), Raw(2 * (p - 1) - r + 1)),
                            RawTotal))
            /\ FEq(fn_result.weights[r + 1], FDiv(Raw(r), RawTotal))

\* a kernel with a wide sigma and at least one merged pair
C15_Witness ==
    /\ KernelReturned
    /\ fn_args.sigma >= 2
    /\ fn_args.radius >= 1
    /\ FLess(fn_result.weights[1], F(1, 1))

\* C16: raw samples are paired at positions (-radius, -radius + 1),
\* (-radius + 2, -radius + 3), .. in order; the pair (a, b) starting at
\* integer offset o becomes one merged sample of weight (a + b) / total at
\* offset o + a / (a + b), which lies in [o, o + 1]; the unpaired last
\* sample (offset +radius) keeps weight a / total at its own offset; the
\* merged offsets are strictly increasing.
C16_PairsMergedInOrder ==
    KernelReturned =>
        LET r == fn_args.radius
            o(p) == 2 * (p - 1) - r
        IN  /\ Len(fn_result.offsets) = r + 1
            /\ Len(fn_result.weights) = r + 1
            /\ \A p \in 1..r :
                   LET a == Raw(o(p))
                       b == Raw(o(p) + 1)
                       offset == fn_result.offsets[p]
                   IN  /\ fn_result.weights[p] = FDiv(FAdd(a, b), RawTotal)
                       /\ offset = FAdd(F(o(p), 1), FDiv(a, FAdd(a, b)))
                       /\ FLess(F(o(p), 1), offset) \/ FEq(F(o(p), 1), offset)
                       /\ FLess(offset, F(o(p) + 1, 1)) \/ FEq(offset, F(o(p) + 1, 1))
            /\ fn_result.weights[r + 1] = FDiv(Raw(r), RawTotal)
            /\ fn_result.offsets[r + 1] = F(r, 1)
            /\ \A p \in 1..r : FLess(fn_result.offsets[p], fn_result.offsets[p + 1])

\* a kernel of at least two pairs whose first merged offset lies strictly
\* between two integer positions
C16_Witness ==
    /\ KernelReturned
    /\ fn_args.radius >= 2
    /\ fn_args.sigma = 1
    /\ FLess(F(0 - fn_args.radius, 1), fn_result.offsets[1])
    /\ FLess(fn_result.offsets[1], F(1 - fn_args.radius, 1))

\* positions in cmds of the atlas uploads of the most recent call
Uploads == {i \in 1..Len(cmds) : cmds[i].op = "write_texture"}

\* C17: TextureRenderer.prepare with N areas issues exactly N atlas
\* uploads, in input order, the i-th (from 0) at origin (0, 0, z = i)
\* with depth 1 and carrying area i's image; no layer is written twice or
\* with another area's image, and no layer with index >= N is written.
C17_OneUploadPerAreaToItsLayer ==
    Called("texture", "prepare") =>
        /\ Uploads = 1..call.n
        /\ call.n = Len(last_textures)
        /\ \A p \in Uploads :
               /\ cmds[p].z = p - 1
               /\ cmds[p].depth = 1
               /\ cmds[p].width = Min(last_textures[p].width, MaxTextureWidth)
               /\ cmds[p].height = Min(last_textures[p].height, MaxTextureHeight)
               /\ cmds[p].len >= last_textures[p].bytes_len
        /\ \A p, q \in Uploads : cmds[p].z = cmds[q].z => p = q

\* a prepare of two areas of different widths
C17_Witness ==
    /\ Called("texture", "prepare")
    /\ call.n = 2
    /\ last_textures[1].width # last_textures[2].width
    /\ Cardinality(Uploads) = 2

\* the render passes recorded by the most recent call, in order
Passes ==
    LET IsPass(c) == c.op = "begin_render_pass"
        begun == SelectSeq(cmds, IsPass)
    IN  [i \in 1..Len(begun) |->
            [pass |-> begun[i].pass, view |-> begun[i].view, load |-> begun[i].load]]

\* C18: a TextureRenderer.render with a prepared count > 0 records exactly
\* three render passes, in order: geometry into the blur intermediate view
\* cleared to transparent, horizontal blur into the blur output view
\* cleared to transparent, vertical blur into the caller's view with
\* load = Load; the caller's view is the target of the third pass only and
\* is never cleared.
C18_ThreePassesInOrder ==
    (Called("texture", "render") /\ prepared_instances > 0) =>
        /\ Passes =
              <<[pass |-> "geometry", view |-> blur_views.intermediate,
                 load |-> "clear"],
                [pass |-> "horizontal", view |-> blur_views.output,
                 load |-> "clear"],
                [pass |-> "vertical", view |-> TargetView, load |-> "load"]>>
        /\ \A i \in 1..Len(Passes) :
               Passes[i].view = TargetView => i = 3 /\ Passes[i].load # "clear"
        /\ \A i \in 1..Len(cmds) : cmds[i].op # "panic"

\* a render of several areas after the blur targets were resized
C18_Witness ==
    /\ Called("texture", "render")
    /\ prepared_instances >= 2
    /\ blur_views.intermediate >= FirstFreeTexture
    /\ Len(Passes) = 3

\* C19: for every buffer variant (index, vertex, instance, storage) and
\* every initial slice of n elements, new asks the device for a buffer of
\* exactly n * elementSize bytes and reads exactly n * elementSize bytes
\* from the slice.
C19_NewAllocatesAndReadsSliceBytes ==
    (call.op = "new" /\ call.obj \in BufferKinds) =>
        /\ ~gpu_buffer.fault
        /\ cmds = <<CreateBuffer(call.obj, call.n * ElementSize(call.obj))>>
        /\ gpu_buffer.capacity = call.n * ElementSize(call.obj)
        /\ gpu_buffer.read = call.n * ElementSize(call.obj)

\* C20: for IndexBuffer, VertexBuffer and InstanceBuffer, after any
\* sequence of new / with_size / write calls size() is the number of
\* elements passed to the most recent new or write, and 0 after a
\* with_size that no write has followed.
C20_SizeIsLastElementCount ==
    (call.obj \in GpuBufferKinds /\ ~gpu_buffer.fault) =>
        /\ call.op \in {"new", "write"} => GpuBuffer_size(gpu_buffer) = call.n
        /\ call.op = "with_size" => GpuBuffer_size(gpu_buffer) = 0

\* do the two lists hold the same areas up to TextureArea.scale, which
\* differs in every position?
DifferInScaleOnly(a, b) ==
    /\ Len(a) = Len(b)
    /\ Len(a) > 0
    /\ \A i \in 1..Len(a) :
        /\ a[i].scale # b[i].scale
        /\ [a[i] EXCEPT !.scale = b[i].scale] = b[i]

\* C21: two prepare calls whose areas differ only in TextureArea.scale
\* write instance records with different scale values.
C21_AreaScaleReachesInstance ==
    [][(/\ Called("texture", "prepare")
        /\ call'.obj = "texture" /\ call'.op = "prepare"
        /\ DifferInScaleOnly(last_textures, last_textures'))
          => \A i \in 1..Len(tex_instances) :
                tex_instances'[i].scale # tex_instances[i].scale]_vars

\* C22 as stated: render takes a Prepared renderer back to Idle, so a
\* render that directly follows a render that drew records nothing.
C22_RenderReturnsToIdle ==
    (Called("texture", "render") /\ cmds # <<>>) =>
        /\ prepared_instances = 0
        /\ TextureRenderCmds = <<>>

\* C22: the renderer is Idle exactly when the prepared count is 0; prepare
\* sets the count to the length of its list, render leaves it alone. A
\* render in Idle records nothing, a render in Prepared records draws, and
\* a render that directly follows a render records the same commands again.
C22_RenderKeepsPrepared ==
    /\ Called("texture", "prepare") => prepared_instances = call.n
    /\ Called("texture", "render") =>
        /\ (prepared_instances = 0) = (cmds = <<>>)
        /\ TextureRenderCmds = cmds

\* a render that drew, in a state where the next render draws again
C22_Witness ==
    /\ Called("texture", "render")
    /\ prepared_instances > 0
    /\ Len(cmds) > 3
    /\ TextureRenderCmds = cmds

\* the attachment of pass `pass` in the most recent call
AttachmentOf(pass) ==
    {c.view : c \in {cmds[i] : i \in {j \in 1..Len(cmds) :
        cmds[j].op = "begin_render_pass" /\ cmds[j].pass = pass}}}

\* the texture view sampled in pass `pass` of the most recent call
SampledIn(pass) ==
    {c.view : c \in {cmds[i] : i \in {j \in 1..Len(cmds) :
        cmds[j].op = "set_bind_group" /\ cmds[j].pass = pass}}}

\* C23: in every render that draws, after any interleaving of prepare and
\* resize, the horizontal blur pass samples the intermediate texture the
\* geometry pass wrote to, and the vertical pass samples the output
\* texture the horizontal pass wrote to.
C23_BlurSamplesWhatWasWritten ==
    (Called("texture", "render") /\ cmds # <<>>) =>
        /\ SampledIn("horizontal") = AttachmentOf("geometry")
        /\ SampledIn("vertical") = AttachmentOf("horizontal")

\* C24: after BlurRenderer.prepare over areas t_1..t_n the weights and
\* offsets arrays have the same length, and metadata[i] = (blur_i, start_i)
\* where start_1 = 0, start_i is start_(i-1) plus the kernel length
\* 3 * blur_(i-1) + 1 of the entry before it (so the starts are the prefix
\* sums of the kernel lengths and strictly increase), and
\* start_i + 3 * blur_i + 1 never exceeds the length of weights.
C24_MetadataStartsArePrefixSums ==
    (BlurPrepared /\ Len(last_textures) > 0) =>
        LET metadata == storage_buffers.metadata
            weights == storage_buffers.weights
            n == Len(last_textures)
        IN  /\ Len(weights) = Len(storage_buffers.offsets)
            /\ Len(metadata) = n
            /\ metadata[1][2] = 0
            /\ \A i \in 1..n :
                /\ metadata[i][1] = last_textures[i].blur
                /\ metadata[i][2] + 3 * metadata[i][1] + 1 <= Len(weights)
                /\ i > 1 =>
                    /\ metadata[i][2] =
                         metadata[i - 1][2] + 3 * metadata[i - 1][1] + 1
                    /\ metadata[i][2] > metadata[i - 1][2]

\* two areas, the first blurred: the second kernel starts after four
\* weights
C24_Witness ==
    /\ Called("blur", "prepare")
    /\ Len(last_textures) = 2
    /\ last_textures[1].blur = 1
    /\ storage_buffers.metadata[2][2] = 4
    /\ Len(storage_buffers.weights) >= 5

\* C25: for every area whose source is tightly packed (4 * W * H bytes),
\* row y of the uploaded region is the first min(W, layer width) pixels of
\* source row y, read from source byte 4 * W * y, followed only by zero
\* padding up to the stride; also when W exceeds the layer width.
C25_UploadRowIsSourceRow ==
    (Uploaded /\ fn_args.texture.bytes_len
                    = 4 * fn_args.texture.width * fn_args.texture.height) =>
        LET W == fn_args.texture.width
            h == Min(fn_args.texture.height, MaxTextureHeight)
        IN  /\ Len(fn_result.rows) = h
            /\ \A y \in 0..(h - 1) :
                /\ fn_result.rows[y + 1].start = 4 * W * y
                /\ fn_result.rows[y + 1].pixels = Min(W, MaxTextureWidth)
                /\ 4 * fn_result.rows[y + 1].pixels
                     + fn_result.rows[y + 1].padding
                       = fn_result.cmd.bytes_per_row

\* C26: every atlas upload targets a layer index strictly less than the
\* layer count the renderer was constructed with, for every length of the
\* area list.
C26_UploadLayerBelowLayerCount ==
    \A i \in 1..Len(cmds) :
        cmds[i].op = "write_texture" => cmds[i].z < max_textures

\* does the instance buffer hold no more elements than its bytes allow?
Fits(buf, elem) == buf.instances * elem <= buf.capacity

\* C27: after any sequence of prepare calls, for every renderer's instance
\* buffer the element count times the element size is at most the byte
\* capacity, and every write issued by prepare fits inside the buffer it
\* is written to.
C27_CountFitsCapacity ==
    /\ Fits(shape_instance_buffer, ShapeInstanceSize)
    /\ Fits(tex_instance_buffer, TextureInstanceSize)
    /\ Fits(blur_instance_buffer, BlurInstanceSize)
    /\ \A i \in 1..Len(cmds) :
        cmds[i].op = "write_buffer" => cmds[i].len <= cmds[i].capacity

\* a prepare that wrote into the buffer it found, after a longer list
C27_Witness ==
    /\ Called("texture", "prepare")
    /\ call.n = 1
    /\ tex_instance_buffer.capacity = TextureInstanceSize * TextureInstanceSize
    /\ shape_instance_buffer.capacity = ShapeInstanceSize * MaxInstances
    /\ shape_instance_buffer.instances = 1

\* C28: BlurRenderer.prepare never evaluates the Gaussian with sigma = 0:
\* for an area with blur 0 no kernel is computed, so no weight that comes
\* from a division by zero is placed in the weights buffer.
C28_NoWeightFromSigmaZero ==
    BlurPrepared =>
        \A i \in 1..Len(storage_buffers.weights) :
            ~storage_buffers.weights[i].nan

\* Image::pad returned or panicked for fn_args
PadCalled == fn_args.fn = "pad" /\ fn_result.done

\* C29: for every source size and every target size Image::pad returns
\* without arithmetic underflow, every padded row is exactly `width`
\* pixels wide (left border + image row + right border = width), and the
\* data of the result is exactly width * height * 4 bytes long.
C29_PadRowsAreTargetWidth ==
    PadCalled =>
        /\ ~fn_result.panic
        /\ ~fn_result.wrapped
        /\ fn_result.padded.img_h > 0 =>
              fn_result.padded.left_border_w + fn_result.padded.img_w
                + fn_result.padded.right_border_w = fn_args.width
        /\ 4 * Len(fn_result.padded.image.data)
              = fn_args.width * fn_args.height * 4

\* C30: in every reachable state of a TextureRenderer a prepared count
\* greater than 0 implies that the blur bind groups and storage buffers
\* are present, and no call records the unwrap of an absent bind group.
C30_PreparedImpliesBindGroups ==
    /\ prepared_instances > 0 => bind_groups.some /\ storage_buffers.some
    /\ \A i \in 1..Len(cmds) : cmds[i].op # "panic"

\* a render that drew with the bind groups a prepare made before the
\* last resize
C30_Witness ==
    /\ Called("texture", "render")
    /\ prepared_instances = 1
    /\ bind_groups.some
    /\ bind_groups.horizontal # blur_views.intermediate
    /\ cmds # <<>>

====
